---------------------------- MODULE Spec2Model ----------------------------
(***************************************************************************)
(* Model of llm_box/dataset/math.py (class Math): the boxed-answer         *)
(* scanner extract_inner_content, the answer normaliser                    *)
(* normalize_final_answer, the prediction cleanser answer_cleansing, the   *)
(* few-shot formatter format_instance and the scorer calculate_metric.     *)
(*                                                                         *)
(* Python str values are TLA+ strings (sequences of characters); indices   *)
(* are the 0-based indices of the source.  A Python value that may be None *)
(* or an exception is a record with a tag t.                               *)
(***************************************************************************)
EXTENDS Integers, Sequences, FiniteSets, TLC

VARIABLES
    evaluation_data,   \* self.evaluation_data: the items, each a mutable dict
    given,             \* the items as they were handed to the object
    arg,               \* the argument of the call under study
    ret,               \* what the last call returned
    pc,                \* "call" before the first call, then the last call's name
    calls              \* how many times format_instance has been called

vars == <<evaluation_data, given, arg, ret, pc, calls>>

-----------------------------------------------------------------------------
(* Python values *)

Str(s) == [t |-> "str", v |-> s]
None == [t |-> "None", v |-> ""]
Raise(e) == [t |-> "raise", v |-> e]
NoReturn == [t |-> "none yet", v |-> ""]

Min(S) == CHOOSE x \in S : \A y \in S : x <= y
Max(S) == CHOOSE x \in S : \A y \in S : x >= y

(* str primitives, 0-based as in Python *)

\* s[a:b] for 0 <= a and 0 <= b, clipped to the string as Python clips
Slice(s, a, b) ==
    LET hi == IF b > Len(s) THEN Len(s) ELSE b
    IN  IF hi <= a THEN "" ELSE SubSeq(s, a + 1, hi)

\* s[i] for an index inside the string
Char(s, i) == SubSeq(s, i + 1, i + 1)

\* s.startswith(pat, i)
StartsWithAt(s, pat, i) ==
    /\ i + Len(pat) <= Len(s)
    /\ SubSeq(s, i + 1, i + Len(pat)) = pat

\* s.find(pat, from): the lowest index >= from where pat occurs, else -1
Find(s, pat, from) ==
    LET hits == {i \in from..(Len(s) - Len(pat)) : StartsWithAt(s, pat, i)}
    IN  IF hits = {} THEN -1 ELSE Min(hits)

\* pat in s
Contains(s, pat) == Find(s, pat, 0) # -1

\* s.replace(old, new, 1): the first occurrence only
ReplaceFirst(s, old, new) ==
    LET i == Find(s, old, 0)
    IN  IF i = -1 THEN s
        ELSE Slice(s, 0, i) \o new \o Slice(s, i + Len(old), Len(s))

\* s.replace(old, new) for a non-empty old: left to right, non-overlapping
RECURSIVE Replace(_, _, _)
Replace(s, old, new) ==
    LET i == Find(s, old, 0)
    IN  IF i = -1 THEN s
        ELSE Slice(s, 0, i) \o new \o Replace(Slice(s, i + Len(old), Len(s)), old, new)

\* s.split(sep)[-1] for a non-empty sep: what follows the last separator
\* that the left-to-right, non-overlapping split finds
RECURSIVE SplitLast(_, _)
SplitLast(s, sep) ==
    LET i == Find(s, sep, 0)
    IN  IF i = -1 THEN s ELSE SplitLast(Slice(s, i + Len(sep), Len(s)), sep)

-----------------------------------------------------------------------------
(* extract_inner_content, math.py 79-93 *)

Marker == "\\boxed{"
MarkerLen == 7

\* text[end] as the interpreter evaluates it: IndexError outside the string
Index(text, end) ==
    IF end < Len(text) THEN Str(Char(text, end)) ELSE Raise("IndexError")

\* the loop without its end < len(text) test
RECURSIVE ScanLoopUnbounded(_, _, _)
ScanLoopUnbounded(text, count, end) ==
    IF count > 0
    THEN LET c == Index(text, end)
         IN  IF c.t = "raise" THEN -1
             ELSE ScanLoopUnbounded(text,
                                    IF c.v = "{" THEN count + 1
                                    ELSE IF c.v = "}" THEN count - 1 ELSE count,
                                    end + 1)
    ELSE end

\* the while loop of lines 87-92; yields the final end, or -1 on IndexError
RECURSIVE ScanLoop(_, _, _)
ScanLoop(text, count, end) ==
    IF count > 0 /\ end < Len(text)
    THEN LET c == Index(text, end)
         IN  IF c.t = "raise" THEN -1
             ELSE ScanLoop(text,
                           IF c.v = "{" THEN count + 1
                           ELSE IF c.v = "}" THEN count - 1 ELSE count,
                           end + 1)
    ELSE end

\* the scanner returning text[start:end], closing brace included
extract_inner_content_keep_brace(text) ==
    LET found == Find(text, Marker, 0)
    IN  IF found = -1 THEN None
        ELSE LET start == found + MarkerLen
                 end == ScanLoop(text, 1, start)
             IN  IF end = -1 THEN Raise("IndexError")
                 ELSE Str(Slice(text, start, end))

extract_inner_content(text) ==
    LET found == Find(text, Marker, 0)
    IN  IF found = -1 THEN None
        ELSE LET start == found + MarkerLen
                 end == ScanLoop(text, 1, start)
             IN  IF end = -1 THEN Raise("IndexError")
                 ELSE Str(Slice(text, start, end - 1))

-----------------------------------------------------------------------------
(* The rule tables, math.py 6-19 *)

SUBSTITUTIONS == <<
    <<"an ", "">>, <<"a ", "">>, <<".$", "$">>, <<"\\$", "">>, <<"\\ ", "">>,
    <<" ", "">>, <<"mbox", "text">>, <<",\\text{and}", ",">>,
    <<"\\text{and}", ",">>, <<"\\text{m}", "\\text{}">> >>

REMOVED_EXPRESSIONS == <<
    "square", "ways", "integers", "dollars", "mph", "inches", "ft",
    "hours", "km", "units", "\\ldots", "sue", "points", "feet",
    "minutes", "digits", "cents", "degrees", "cm", "gm", "pounds",
    "meters", "meals", "edges", "students", "childrentickets", "multiples",
    "\\text{s}", "\\text{.}", "\\text{\ns}", "\\text{}^2",
    "\\text{}^3", "\\text{\n}", "\\text{}", "\\mathrm{th}",
    "^\\circ", "^{\\circ}", "\\;", ",\\!", "{,}", "\"", "\\dots" >>

-----------------------------------------------------------------------------
(* The regular expressions of math.py, as re matches them.  '.' matches    *)
(* every character but the newline; re.sub and re.findall scan from left   *)
(* to right, and after a failure at a position go on from the next one.    *)

\* the index of the first newline at or after i, or len(s)
LineEnd(s, i) ==
    LET nl == Find(s, "\n", i) IN IF nl = -1 THEN Len(s) ELSE nl

\* the highest index in from..to-1 where the character c is, else -1
FindLast(s, c, from, to) ==
    LET hits == {i \in from..(to - 1) : Char(s, i) = c}
    IN  IF hits = {} THEN -1 ELSE Max(hits)

\* re.sub(r'(.*?)(\$)(.*?)(\$)(.*)', '$\\3$', s), from position p on
RECURSIVE SubDollarSpan(_, _)
SubDollarSpan(s, p) ==
    IF p >= Len(s) THEN ""
    ELSE LET eol == LineEnd(s, p)
             line == Slice(s, 0, eol)
             i == Find(line, "$", p)
             j == IF i = -1 THEN -1 ELSE Find(line, "$", i + 1)
         IN  IF j # -1
             THEN "$" \o Slice(s, i + 1, j) \o "$" \o SubDollarSpan(s, eol)
             ELSE Char(s, p) \o SubDollarSpan(s, p + 1)

\* re.sub(r'(<open>)(.*?)(\})', '\\2', s), from position p on
RECURSIVE SubUnwrapLazy(_, _, _)
SubUnwrapLazy(s, open, p) ==
    IF p >= Len(s) THEN ""
    ELSE LET from == p + Len(open)
             j == IF StartsWithAt(s, open, p)
                  THEN Find(Slice(s, 0, LineEnd(s, from)), "}", from)
                  ELSE -1
         IN  IF j # -1
             THEN Slice(s, from, j) \o SubUnwrapLazy(s, open, j + 1)
             ELSE Char(s, p) \o SubUnwrapLazy(s, open, p + 1)

\* re.sub(r'(<open>)(.*)(\})', '\\2', s), from position p on
RECURSIVE SubUnwrapGreedy(_, _, _)
SubUnwrapGreedy(s, open, p) ==
    IF p >= Len(s) THEN ""
    ELSE LET from == p + Len(open)
             j == IF StartsWithAt(s, open, p)
                  THEN FindLast(s, "}", from, LineEnd(s, from))
                  ELSE -1
         IN  IF j # -1
             THEN Slice(s, from, j) \o SubUnwrapGreedy(s, open, j + 1)
             ELSE Char(s, p) \o SubUnwrapGreedy(s, open, p + 1)

\* re.sub(r'(frac)([^{])(.)', 'frac{\\2}{\\3}', s), from position p on
RECURSIVE SubFrac(_, _)
SubFrac(s, p) ==
    IF p >= Len(s) THEN ""
    ELSE IF /\ StartsWithAt(s, "frac", p)
            /\ p + 5 < Len(s)
            /\ Char(s, p + 4) # "{"
            /\ Char(s, p + 5) # "\n"
         THEN "frac{" \o Char(s, p + 4) \o "}{" \o Char(s, p + 5) \o "}"
                \o SubFrac(s, p + 6)
         ELSE Char(s, p) \o SubFrac(s, p + 1)

\* re.sub(r'(sqrt)([^{])', 'sqrt{\\2}', s), from position p on
RECURSIVE SubSqrt(_, _)
SubSqrt(s, p) ==
    IF p >= Len(s) THEN ""
    ELSE IF /\ StartsWithAt(s, "sqrt", p)
            /\ p + 4 < Len(s)
            /\ Char(s, p + 4) # "{"
         THEN "sqrt{" \o Char(s, p + 4) \o "}" \o SubSqrt(s, p + 5)
         ELSE Char(s, p) \o SubSqrt(s, p + 1)

Digits == {"0", "1", "2", "3", "4", "5", "6", "7", "8", "9"}

\* s.isdigit() on the characters of the model: non-empty, decimal digits only
IsDigit(s) == Len(s) > 0 /\ \A i \in 0..(Len(s) - 1) : Char(s, i) \in Digits

-----------------------------------------------------------------------------
(* normalize_final_answer, math.py 45-77 *)

\* lines 49-50: the loop over SUBSTITUTIONS from its k-th pair on; each
\* replacement is evaluated before the loop goes on, as the assignment does
RECURSIVE ApplySubstitutions(_, _)
ApplySubstitutions(final_answer, k) ==
    IF k > Len(SUBSTITUTIONS) THEN final_answer
    ELSE LET replaced == Replace(final_answer, SUBSTITUTIONS[k][1], SUBSTITUTIONS[k][2])
         IN  IF Len(replaced) >= 0 THEN ApplySubstitutions(replaced, k + 1) ELSE replaced

\* lines 51-52: the loop over REMOVED_EXPRESSIONS from its k-th entry on
RECURSIVE ApplyRemovals(_, _)
ApplyRemovals(final_answer, k) ==
    IF k > Len(REMOVED_EXPRESSIONS) THEN final_answer
    ELSE LET replaced == Replace(final_answer, REMOVED_EXPRESSIONS[k], "")
         IN  IF Len(replaced) >= 0 THEN ApplyRemovals(replaced, k + 1) ELSE replaced

\* lines 56-71: the regular-expression passes and the removal of '$'; the
\* print of line 57 writes the text out and leaves it as it is
StructuralPasses(s) ==
    LET s1 == SubDollarSpan(s, 0)
        s2 == SubUnwrapLazy(s1, "\\text{", 0)
        s3 == SubUnwrapLazy(s2, "\\textbf{", 0)
        s4 == SubUnwrapLazy(s3, "\\overline{", 0)
        s5 == SubUnwrapGreedy(s4, "\\boxed{", 0)
        s6 == SubFrac(s5, 0)
        s7 == SubSqrt(s6, 0)
    IN  Replace(s7, "$", "")

\* lines 74-75 with the test made on the string itself
NormalizeCommasUnstripped(final_answer) ==
    IF IsDigit(final_answer) THEN Replace(final_answer, ",", "") ELSE final_answer

\* lines 74-75: 100,000 -> 100000
NormalizeCommas(final_answer) ==
    IF IsDigit(Replace(final_answer, ",", ""))
    THEN Replace(final_answer, ",", "")
    ELSE final_answer

\* lines 47-71: final_answer as it stands before the comma test
BeforeCommas(final_answer) ==
    StructuralPasses(ApplyRemovals(ApplySubstitutions(SplitLast(final_answer, "="), 1), 1))

\* the normaliser keeping what precedes the first '=' instead
normalize_final_answer_first_part(final_answer) ==
    LET i == Find(final_answer, "=", 0)
        head == IF i = -1 THEN final_answer ELSE Slice(final_answer, 0, i)
    IN  NormalizeCommas(StructuralPasses(ApplyRemovals(ApplySubstitutions(head, 1), 1)))

normalize_final_answer(final_answer) ==
    NormalizeCommas(BeforeCommas(final_answer))

-----------------------------------------------------------------------------
(* answer_cleansing, math.py 95-108 *)

\* the characters str.strip() removes, among those of the model
Whitespace == {" ", "\t", "\n", "\r", "\f"}

\* s.strip()
Strip(s) ==
    LET kept == {i \in 0..(Len(s) - 1) : Char(s, i) \notin Whitespace}
    IN  IF kept = {} THEN "" ELSE Slice(s, Min(kept), Max(kept) + 1)

\* re.findall(r'\$(.*?)\$', s) from position p on: the contents of the spans
RECURSIVE FindallDollar(_, _)
FindallDollar(s, p) ==
    IF p >= Len(s) THEN <<>>
    ELSE LET j == IF Char(s, p) = "$"
                  THEN Find(Slice(s, 0, LineEnd(s, p + 1)), "$", p + 1)
                  ELSE -1
         IN  IF j # -1
             THEN <<Slice(s, p + 1, j)>> \o FindallDollar(s, j + 1)
             ELSE FindallDollar(s, p + 1)

\* the index after the run of digits that starts at q
DigitsEnd(s, q) ==
    LET others == {i \in q..(Len(s) - 1) : Char(s, i) \notin Digits}
    IN  IF others = {} THEN Len(s) ELSE Min(others)

\* [-+]?\d*\.\d+ at position p: the end of the match, else -1
MatchDecimal(s, p) ==
    LET q0 == IF p < Len(s) /\ Char(s, p) \in {"-", "+"} THEN p + 1 ELSE p
        q == DigitsEnd(s, q0)
        r == IF q < Len(s) /\ Char(s, q) = "." THEN DigitsEnd(s, q + 1) ELSE -1
    IN  IF r > q + 1 THEN r ELSE -1

\* \d+ at position p: the end of the match, else -1
MatchInteger(s, p) ==
    LET q == DigitsEnd(s, p) IN IF q > p THEN q ELSE -1

\* [-+]?\d*\.\d+|\d+ at position p: the first alternative that matches
MatchNumber(s, p) ==
    IF MatchDecimal(s, p) # -1 THEN MatchDecimal(s, p) ELSE MatchInteger(s, p)

\* re.findall(r"[-+]?\d*\.\d+|\d+", s) from position p on
RECURSIVE FindallNumbers(_, _)
FindallNumbers(s, p) ==
    IF p >= Len(s) THEN <<>>
    ELSE LET e == MatchNumber(s, p)
         IN  IF e # -1
             THEN <<Slice(s, p, e)>> \o FindallNumbers(s, e)
             ELSE FindallNumbers(s, p + 1)

\* lines 99-100: what is read after the answer phrase
WorkingText(pred) ==
    IF Contains(pred, "The answer is ")
    THEN Strip(SplitLast(pred, "The answer is "))
    ELSE pred

\* lines 99-106: the body of the loop, for one prediction
CleanseOne(pred0) ==
    LET pred == WorkingText(pred0)
        final_answer == FindallDollar(pred, 0)
        numbers == FindallNumbers(pred, 0)
    IN  IF final_answer # <<>>
        THEN normalize_final_answer(final_answer[Len(final_answer)])
        ELSE IF numbers # <<>> THEN numbers[Len(numbers)] ELSE pred

answer_cleansing(preds) == [i \in 1..Len(preds) |-> CleanseOne(preds[i])]

-----------------------------------------------------------------------------
(* format_instance, math.py 110-117 *)

\* f"{ans}": None is rendered as the text None
FormatValue(ans) == IF ans.t = "None" THEN "None" ELSE ans.v

\* lines 112-113: the item after the two assignments
FormattedItem(instance) ==
    LET ans == extract_inner_content(instance.solution)
    IN  [problem |-> "Q: " \o instance.problem \o "\n" \o "A:",
         solution |-> " " \o instance.solution \o "\nThe answer is $"
                          \o FormatValue(ans) \o "$"]

\* lines 114-117: the returned dict
FormatResult(instance) ==
    [source |-> FormattedItem(instance).problem,
     target |-> FormattedItem(instance).solution]

-----------------------------------------------------------------------------
(* references and calculate_metric, math.py 119-126 *)

\* line 126
references(data) ==
    [i \in 1..Len(data) |-> extract_inner_content(data[i].solution)]

\* the returned {'Accuracy': equal / total}; total = 0 is nan
Accuracy(equal, total) == [t |-> "float", equal |-> equal, total |-> total]

\* a prediction (a str) against a reference (a str or None)
SameAnswer(prediction, reference) ==
    reference.t = "str" /\ reference.v = prediction

\* lines 121-122.  numpy compares arrays of the same length element by
\* element and stretches an array of length 1 to the length of the other;
\* for lengths it cannot bring together, it yields the scalar False (mean
\* 0.0) or raises ValueError, depending on its version, and an array of
\* length 1 against an empty one yields nan or 0.0.
calculate_metric(predictions, data) ==
    LET cleansed == answer_cleansing(predictions)
        refs == references(data)
        n == Len(cleansed)
        m == Len(refs)
        wide == IF n > m THEN n ELSE m
        pick(seq, i) == IF Len(seq) = 1 THEN seq[1] ELSE seq[i]
        equal == Cardinality({i \in 1..wide :
                                 SameAnswer(pick(cleansed, i), pick(refs, i))})
    IN  IF n = m THEN {Accuracy(equal, n)}
        ELSE IF (n = 1 \/ m = 1) /\ wide > 1 THEN {Accuracy(equal, wide)}
        ELSE IF n = 1 \/ m = 1 THEN {Accuracy(0, 0), Accuracy(0, 1)}
        ELSE {Accuracy(0, 1), Raise("ValueError")}

-----------------------------------------------------------------------------
(* Inputs: texts are concatenations of a bounded number of pieces *)

MaxExtractPieces == 5

RECURSIVE Concats(_, _)
Concats(pieces, n) ==
    IF n = 0 THEN {""}
    ELSE LET shorter == Concats(pieces, n - 1)
         IN  shorter \cup {t \o p : t \in shorter, p \in pieces}

ExtractPieces == {Marker, "{", "}", "5", "\\b"}
ExtractTexts == Concats(ExtractPieces, MaxExtractPieces)

-----------------------------------------------------------------------------
(* The scanner on its own *)

InitExtract ==
    /\ evaluation_data = <<>>
    /\ given = <<>>
    /\ arg \in ExtractTexts
    /\ ret = NoReturn
    /\ pc = "call"
    /\ calls = 0

ExtractInnerContent ==
    /\ pc = "call"
    /\ ret' = extract_inner_content(arg)
    /\ pc' = "extract_inner_content"
    /\ UNCHANGED <<evaluation_data, given, arg, calls>>

NextExtract == ExtractInnerContent

SpecExtract == InitExtract /\ [][NextExtract]_vars

-----------------------------------------------------------------------------
(* What the scanner is said to return, stated over positions *)

MarkerAt(text, i) == SubSeq(text, i + 1, i + MarkerLen) = "\\boxed{"
MarkerPositions(text) == {i \in 0..(Len(text) - MarkerLen) : MarkerAt(text, i)}
HasMarker(text) == MarkerPositions(text) # {}
ContentStart(text) == Min(MarkerPositions(text)) + MarkerLen

\* the running depth after the characters at positions ContentStart..j-1
DepthBefore(text, j) ==
    LET s == ContentStart(text)
    IN  1 + Cardinality({k \in s..(j - 1) : Char(text, k) = "{"})
          - Cardinality({k \in s..(j - 1) : Char(text, k) = "}"})

\* positions whose character brings the depth to 0
ClosingPositions(text) ==
    {j \in ContentStart(text)..(Len(text) - 1) : DepthBefore(text, j + 1) = 0}

Closes(text) == HasMarker(text) /\ ClosingPositions(text) # {}

Returned == pc = "extract_inner_content"

\* C1: when the marker occurs and its braces close, the scanner returns the
\* text between the first marker's opening brace and the '}' at which the
\* depth first reaches 0, nested pairs kept whole, that '}' excluded.
C1_BalancedSpan ==
    (Returned /\ Closes(arg)) =>
        ret = Str(SubSeq(arg, ContentStart(arg) + 1, Min(ClosingPositions(arg))))

C1_Witness ==
    /\ Returned
    /\ Closes(arg)
    /\ Contains(ret.v, "{")
    /\ Min(ClosingPositions(arg)) < Len(arg) - 1

\* C2: the scanner never raises; it returns None exactly when the marker
\* does not occur; when the marker occurs and the depth never returns to 0
\* it returns the text after the marker without its last character, which
\* is the empty text when nothing follows the marker.
C2_Total ==
    Returned =>
        /\ ret.t # "raise"
        /\ (ret = None) <=> ~HasMarker(arg)
        /\ (HasMarker(arg) /\ ~Closes(arg)) =>
              ret = Str(IF ContentStart(arg) = Len(arg) THEN ""
                        ELSE SubSeq(arg, ContentStart(arg) + 1, Len(arg) - 1))

C2_Witness ==
    /\ Returned
    /\ HasMarker(arg)
    /\ ~Closes(arg)
    /\ ret.t = "str"
    /\ ret.v # ""

-----------------------------------------------------------------------------
(* The normaliser on its own: called on a text, then on its own output *)

MaxNormalizePieces == 3
NormalizePieces ==
    {"=", "$", "\\text{", "}", "a ", "3", ",", "(3)", "[3, ", "3]"}
NormalizeTexts == Concats(NormalizePieces, MaxNormalizePieces)

InitNormalize ==
    /\ evaluation_data = <<>>
    /\ arg \in NormalizeTexts
    /\ given = <<arg>>
    /\ ret = NoReturn
    /\ pc = "call"
    /\ calls = 0

NormalizeFinalAnswer(final_answer, name) ==
    /\ arg' = final_answer
    /\ ret' = Str(normalize_final_answer(final_answer))
    /\ pc' = name
    /\ UNCHANGED <<evaluation_data, given, calls>>

NextNormalize ==
    \/ pc = "call" /\ NormalizeFinalAnswer(arg, "normalize_final_answer")
    \/ pc = "normalize_final_answer" /\ NormalizeFinalAnswer(ret.v, "normalize again")

SpecNormalize == InitNormalize /\ [][NextNormalize]_vars

-----------------------------------------------------------------------------
(* The cleanser on its own: one or two predictions *)

MaxCleansePieces == 4
CleansePieces == {"The answer is ", "$", "5", "-", ".", "a ", "\n", "="}
CleanseTexts == Concats(CleansePieces, MaxCleansePieces)
PairedTexts == {"$5$", "-5", "a "}

InitCleanse ==
    /\ evaluation_data = <<>>
    /\ given = <<>>
    /\ arg \in {<<p>> : p \in CleanseTexts} \cup (PairedTexts \X PairedTexts)
    /\ ret = NoReturn
    /\ pc = "call"
    /\ calls = 0

AnswerCleansing ==
    /\ pc = "call"
    /\ ret' = answer_cleansing(arg)
    /\ pc' = "answer_cleansing"
    /\ UNCHANGED <<evaluation_data, given, arg, calls>>

NextCleanse == AnswerCleansing

SpecCleanse == InitCleanse /\ [][NextCleanse]_vars

-----------------------------------------------------------------------------
(* One item: formatted, possibly again, and its target scored as a prediction *)

MaxCalls == 2
MaxSolutionPieces == 4
SolutionPieces == {Marker, "}", "5", "a ", "{", "="}
\* a solution of the corpus boxes its answer in closed braces; one without
\* any boxed answer is the degenerate item whose answer is rendered None
Solutions ==
    {sol \in Concats(SolutionPieces, MaxSolutionPieces) :
        ~HasMarker(sol) \/ Closes(sol)}
Problems == {"p", ""}

InitDataset ==
    /\ evaluation_data \in {<<[problem |-> p, solution |-> sol]>> :
                               p \in Problems, sol \in Solutions}
    /\ given = evaluation_data
    /\ arg = <<>>
    /\ ret = NoReturn
    /\ pc = "call"
    /\ calls = 0

\* format_instance(self.evaluation_data[i]): the dict is changed in place
FormatInstance(i) ==
    /\ calls < MaxCalls
    /\ pc \in {"call", "format_instance"}
    /\ ret' = FormatResult(evaluation_data[i])
    /\ evaluation_data' = [evaluation_data EXCEPT ![i] = FormattedItem(@)]
    /\ pc' = "format_instance"
    /\ calls' = calls + 1
    /\ UNCHANGED <<given, arg>>

CalculateMetric(predictions) ==
    /\ arg' = predictions
    /\ ret' \in calculate_metric(predictions, evaluation_data)
    /\ pc' = "calculate_metric"
    /\ UNCHANGED <<evaluation_data, given, calls>>

\* the target just built is handed back as the prediction for the item
ScoreTarget ==
    /\ pc = "format_instance"
    /\ CalculateMetric(<<ret.target>>)

NextDataset ==
    \/ \E i \in 1..Len(evaluation_data) : FormatInstance(i)
    \/ ScoreTarget

SpecDataset == InitDataset /\ [][NextDataset]_vars

-----------------------------------------------------------------------------
(* The scorer: any number of predictions against any number of items *)

MaxItems == 3
ItemSolutions == {"\\boxed{4}", "\\boxed{5}", "5"}
Predictions == {"$4$", "5", "The answer is $5$"}

RECURSIVE SeqsUpTo(_, _)
SeqsUpTo(S, n) ==
    IF n = 0 THEN {<<>>}
    ELSE LET shorter == SeqsUpTo(S, n - 1)
         IN  shorter \cup {Append(q, x) : q \in shorter, x \in S}

\* the test split and the batch of predictions are not empty
InitMetric ==
    /\ evaluation_data \in SeqsUpTo({[problem |-> "p", solution |-> sol] :
                                        sol \in ItemSolutions}, MaxItems) \ {<<>>}
    /\ given = evaluation_data
    /\ arg \in SeqsUpTo(Predictions, MaxItems) \ {<<>>}
    /\ ret = NoReturn
    /\ pc = "call"
    /\ calls = 0

ScorePredictions ==
    /\ pc = "call"
    /\ CalculateMetric(arg)

NextMetric == ScorePredictions

SpecMetric == InitMetric /\ [][NextMetric]_vars

-----------------------------------------------------------------------------
(* What the normaliser is said to do: one ordered list of rules, each      *)
(* applied to the output of the one before                                 *)

Rules ==
    [k \in 1..Len(SUBSTITUTIONS) |->
        [kind |-> "replace", old |-> SUBSTITUTIONS[k][1], new |-> SUBSTITUTIONS[k][2]]]
    \o [k \in 1..Len(REMOVED_EXPRESSIONS) |->
        [kind |-> "replace", old |-> REMOVED_EXPRESSIONS[k], new |-> ""]]
    \o << [kind |-> "dollar span", old |-> "", new |-> ""],
          [kind |-> "unwrap", old |-> "\\text{", new |-> ""],
          [kind |-> "unwrap", old |-> "\\textbf{", new |-> ""],
          [kind |-> "unwrap", old |-> "\\overline{", new |-> ""],
          [kind |-> "unwrap all", old |-> "\\boxed{", new |-> ""],
          [kind |-> "frac", old |-> "", new |-> ""],
          [kind |-> "sqrt", old |-> "", new |-> ""],
          [kind |-> "replace", old |-> "$", new |-> ""],
          [kind |-> "commas", old |-> "", new |-> ""] >>

ApplyRule(rule, s) ==
    CASE rule.kind = "replace" -> Replace(s, rule.old, rule.new)
      [] rule.kind = "dollar span" -> SubDollarSpan(s, 0)
      [] rule.kind = "unwrap" -> SubUnwrapLazy(s, rule.old, 0)
      [] rule.kind = "unwrap all" -> SubUnwrapGreedy(s, rule.old, 0)
      [] rule.kind = "frac" -> SubFrac(s, 0)
      [] rule.kind = "sqrt" -> SubSqrt(s, 0)
      [] rule.kind = "commas" -> NormalizeCommas(s)

RECURSIVE RunRules(_, _)
RunRules(s, k) ==
    IF k > Len(Rules) THEN s
    ELSE LET next == ApplyRule(Rules[k], s)
         IN  IF Len(next) >= 0 THEN RunRules(next, k + 1) ELSE next

\* what follows the last '=' of the text; the whole text when it has none
AfterLastEquals(s) ==
    LET at == {i \in 0..(Len(s) - 1) : Char(s, i) = "="}
    IN  IF at = {} THEN s ELSE Slice(s, Max(at) + 1, Len(s))

Normalized == pc = "normalize_final_answer"

\* C4 as stated: the normaliser returns the rules, in order, applied to the
\* entire input text, nothing else being done to the text.
C4_WholeInput == Normalized => ret = Str(RunRules(arg, 1))

\* C4 as amended: the rules, in order, are applied to what follows the last
\* '=' of the input text (the entire text when it has no '=').
C4_AfterLastEquals == Normalized => ret = Str(RunRules(AfterLastEquals(arg), 1))

C4_Witness ==
    /\ Normalized
    /\ Contains(arg, "=")
    /\ Contains(arg, "a ")
    /\ ret = Str("3")

\* the text without its commas
RECURSIVE WithoutCommas(_)
WithoutCommas(s) ==
    IF s = "" THEN ""
    ELSE (IF Char(s, 0) = "," THEN "" ELSE Char(s, 0))
            \o WithoutCommas(Slice(s, 1, Len(s)))

OnlyDigitsAndCommas(s) ==
    \A i \in 0..(Len(s) - 1) : Char(s, i) \in Digits \cup {","}

HasDigit(s) == \E i \in 0..(Len(s) - 1) : Char(s, i) \in Digits

\* C7 as stated: the last pass removes the commas exactly when every
\* character left by the earlier passes is a digit or a comma.
C7_OnlyDigitsAndCommas ==
    Normalized =>
        LET left == BeforeCommas(arg)
        IN  ret = Str(IF OnlyDigitsAndCommas(left) THEN WithoutCommas(left) ELSE left)

\* C7 as amended: the last pass removes the commas exactly when every
\* character left by the earlier passes is a digit or a comma and at least
\* one of them is a digit.
C7_DigitsWithCommas ==
    Normalized =>
        LET left == BeforeCommas(arg)
        IN  ret = Str(IF OnlyDigitsAndCommas(left) /\ HasDigit(left)
                      THEN WithoutCommas(left) ELSE left)

C7_Witness ==
    /\ Normalized
    /\ Contains(BeforeCommas(arg), ",")
    /\ ret = Str("33")

\* the texts over the characters of numbers, commas and brackets: the pure
\* numbers with or without commas and the bracketed lists of numbers are
\* among them
SimpleCharacters == Digits \cup {",", " ", ".", "-", "(", ")", "[", "]"}
IsSimpleAnswer(s) == \A i \in 0..(Len(s) - 1) : Char(s, i) \in SimpleCharacters

\* C9: normalising the normalised form of a simple numeric or bracketed
\* answer returns it unchanged.
C9_Idempotent ==
    (pc = "normalize again" /\ IsSimpleAnswer(given[1])) => ret = Str(arg)

C9_Witness ==
    /\ pc = "normalize again"
    /\ given[1] = "[3, 3]"
    /\ arg = "[3,3]"
    /\ ret = Str("[3,3]")

-----------------------------------------------------------------------------
(* What the cleanser is said to return *)

Cleansed == pc = "answer_cleansing"

\* the Candidate: the last dollar span, else the last number, else the text
Candidate(pred) ==
    LET text == WorkingText(pred)
        spans == FindallDollar(text, 0)
        numbers == FindallNumbers(text, 0)
    IN  IF spans # <<>> THEN spans[Len(spans)]
        ELSE IF numbers # <<>> THEN numbers[Len(numbers)] ELSE text

\* C3: every returned string is the normalised Candidate, whichever
\* heuristic located the Candidate.
C3_NormalizedCandidate ==
    Cleansed =>
        \A i \in 1..Len(arg) : ret[i] = normalize_final_answer(Candidate(arg[i]))

\* [-+]?\d*\.\d+|\d+ with the sign read as optional before both alternatives
MatchSignedNumber(s, p) ==
    LET q0 == IF p < Len(s) /\ Char(s, p) \in {"-", "+"} THEN p + 1 ELSE p
    IN  IF MatchDecimal(s, p) # -1 THEN MatchDecimal(s, p)
        ELSE IF MatchInteger(s, q0) # -1 THEN MatchInteger(s, q0)
        ELSE MatchInteger(s, p)

\* the tokens an optional sign followed by an integer or a decimal gives
RECURSIVE FindallSigned(_, _)
FindallSigned(s, p) ==
    IF p >= Len(s) THEN <<>>
    ELSE LET e == MatchSignedNumber(s, p)
         IN  IF e # -1
             THEN <<Slice(s, p, e)>> \o FindallSigned(s, e)
             ELSE FindallSigned(s, p + 1)

\* C5: without a dollar span, the returned string is the last signed token
\* of the working text, the sign kept for integers and decimals alike.
C5_LastSignedToken ==
    Cleansed =>
        \A i \in 1..Len(arg) :
            LET text == WorkingText(arg[i])
                tokens == FindallSigned(text, 0)
            IN  (FindallDollar(text, 0) = <<>> /\ tokens # <<>>) =>
                    ret[i] = tokens[Len(tokens)]

-----------------------------------------------------------------------------
(* What formatting and scoring are said to do *)

\* C8: format_instance leaves the item as it was given and returns the
\* pair built from the given problem and solution, however often called.
C8_ItemUnchanged ==
    pc = "format_instance" =>
        /\ evaluation_data = given
        /\ ret = [source |-> "Q: " \o given[1].problem \o "\nA:",
                  target |-> " " \o given[1].solution \o "\nThe answer is $"
                                 \o FormatValue(extract_inner_content(given[1].solution))
                                 \o "$"]

\* C10: the target built for an item whose solution has the marker, given
\* back as the prediction for that item, is counted as equal to the
\* item's reference.
C10_TargetScoresEqual ==
    (pc = "calculate_metric" /\ calls = 1 /\ HasMarker(given[1].solution)) =>
        ret = Accuracy(1, 1)

\* C6: with as many predictions as items a number is returned, and with
\* any other number of predictions an error is signalled.
C6_LengthMismatchSignalled ==
    pc = "calculate_metric" =>
        (ret.t = "float" <=> Len(arg) = Len(evaluation_data))

=============================================================================
